---- MODULE Spec2Model ----
(***************************************************************************)
(* A model of the two upload front-ends of the call-analysis client:       *)
(*   "main" : src/unnamed/part_000      (analyze-form page)                *)
(*   "web"  : src/web/frontend/app.js   (upload-form page)                 *)
(*                                                                         *)
(* JSON values are tagged records; a number is kept in hundredths (the     *)
(* score 0.73 is 73, the length 2 is 200) so that fractions stay integers. *)
(* User-facing strings of the source are Russian literals; the module      *)
(* holds an ASCII gloss of each, one distinct gloss per distinct literal.  *)
(***************************************************************************)
EXTENDS Integers, Sequences, FiniteSets, TLC

\* ------------------------------------------------------------- bounds
\* accepted submit events per session
MaxSubmits == 2
\* successful exports (object URLs allocated) per session
MaxExports == 2

\* ------------------------------------------------------- JSON values
Undef == [t |-> "undefined"]
JNull == [t |-> "null"]
JBool(b) == [t |-> "bool", b |-> b]
JNum(n) == [t |-> "num", n |-> n]
JStr(s) == [t |-> "str", s |-> s]
JObj(o) == [t |-> "obj", o |-> o]
JArr(a) == [t |-> "arr", a |-> a]
EmptyObj == JObj([k \in {} |-> Undef])

\* x == null || x === undefined
Nullish(v) == v.t \in {"undefined", "null"}

\* ToBoolean
Truthy(v) ==
  CASE v.t = "bool" -> v.b
    [] v.t = "num" -> v.n # 0
    [] v.t = "str" -> v.s # ""
    [] v.t \in {"obj", "arr"} -> TRUE
    [] OTHER -> FALSE

\* v.k for a v that is not null/undefined (reading a property of those throws)
Prop(v, k) ==
  CASE v.t = "obj" -> IF k \in DOMAIN v.o THEN v.o[k] ELSE Undef
    [] v.t = "arr" /\ k = "length" -> JNum(100 * Len(v.a))
    [] OTHER -> Undef

\* a ?? b
Coalesce(a, b) == IF Nullish(a) THEN b ELSE a

\* a || b
OrElse(a, b) == IF Truthy(a) THEN a ELSE b

\* a default parameter value: applied for undefined only, not for null
DefaultParam(arg, dflt) == IF arg = Undef THEN dflt ELSE arg

Abs(n) == IF n < 0 THEN -n ELSE n

TwoDigits(k) == IF k < 10 THEN "0" \o ToString(k) ELSE ToString(k)

\* Number.prototype.toFixed(2) of a number held in hundredths
toFixed2(n) ==
  (IF n < 0 THEN "-" ELSE "") \o ToString(Abs(n) \div 100) \o "." \o TwoDigits(Abs(n) % 100)

\* Number.prototype.toFixed(1): to the nearest tenth, the larger on a tie
toFixed1(n) ==
  LET tenths == (Abs(n) + 5) \div 10
  IN (IF n < 0 THEN "-" ELSE "") \o ToString(tenths \div 10) \o "." \o ToString(tenths % 10)

\* Number::toString of a number held in hundredths
NumToString(n) ==
  LET a == Abs(n)
      sign == IF n < 0 THEN "-" ELSE ""
  IN CASE a % 100 = 0 -> sign \o ToString(a \div 100)
       [] a % 10 = 0 -> sign \o ToString(a \div 100) \o "." \o ToString((a % 100) \div 10)
       [] OTHER -> sign \o ToString(a \div 100) \o "." \o TwoDigits(a % 100)

\* ToString of a value, as in a template literal or a textContent assignment
\* (arrays of the modelled inputs hold objects only)
RECURSIVE JoinArr(_, _)
JsString(v) ==
  CASE v.t = "str" -> v.s
    [] v.t = "num" -> NumToString(v.n)
    [] v.t = "bool" -> IF v.b THEN "true" ELSE "false"
    [] v.t = "null" -> "null"
    [] v.t = "undefined" -> "undefined"
    [] v.t = "obj" -> "[object Object]"
    [] OTHER -> JoinArr(v.a, 1)
JoinArr(a, i) ==
  IF i > Len(a) THEN ""
  ELSE (IF i > 1 THEN "," ELSE "")
       \o (IF a[i].t = "obj" THEN "[object Object]" ELSE "")
       \o JoinArr(a, i + 1)

\* String.prototype.toUpperCase on the language codes of the modelled reports
toUpperCase(s) ==
  CASE s = "ru" -> "RU"
    [] s = "en" -> "EN"
    [] OTHER -> s

\* ------------------------------------------------------ DOM elements
\* an element with text content and no children
El(tag, cls, text) == [tag |-> tag, cls |-> cls, text |-> text]
\* an element with children
Box(tag, cls, kids) == [tag |-> tag, cls |-> cls, kids |-> kids]

\* the outcome of a section renderer: the container's children when it
\* returned or threw, and whether it threw
Done(kids) == [kids |-> kids, threw |-> FALSE]
Threw(kids) == [kids |-> kids, threw |-> TRUE]

\* clearContainer, were it to leave the children in place
clearContainer_keeps(kids) == kids

\* clearContainer leaves no child
clearContainer(kids) == <<>>

\* index of the first item a row builder throws on, Len + 1 when none;
\* throws[i] tells whether the loop body throws on the i-th item
FirstBad(throws) ==
  LET bad == {i \in 1..Len(throws) : throws[i]}
  IN IF bad = {} THEN Len(throws) + 1
     ELSE CHOOSE i \in bad : \A j \in bad : i <= j

\* a for..of loop appending one element per item, in order, up to the
\* first item its body throws on (that item's element is never appended)
\* rows[i] is the element the body builds for the i-th item
AppendEach(base, throws, rows) ==
  LET stop == FirstBad(throws)
      kids == base \o SubSeq(rows, 1, stop - 1)
  IN IF stop <= Len(throws) THEN Threw(kids) ELSE Done(kids)

\* ------------------------------------------- main: section renderers
fmtPercent(value) ==
  LET v == OrElse(value, JNum(0))
      num == CASE v.t = "num" -> toFixed1(v.n)
               [] v.t = "bool" -> toFixed1(100)
               [] OTHER -> "NaN"
  IN num \o "%"

SummaryItem(label, value) ==
  Box("div", "summary-item",
      << El("span", "summary-item__label", label),
         El("span", "summary-item__value",
            IF Nullish(value) THEN "-" ELSE JsString(value)) >>)

renderSummary(prev, payload) ==
  LET base == clearContainer(prev)
  IN IF Nullish(payload) THEN Threw(base)
     ELSE
       LET lang == Prop(payload, "lang")
           upper == IF lang.t = "str" THEN JStr(toUpperCase(lang.s)) ELSE Undef
           dur == Coalesce(Prop(payload, "durationSec"), JNum(0))
       IN IF dur.t # "num" THEN Threw(base)
          ELSE
            LET items ==
                  << SummaryItem("Call ID", Prop(payload, "callId")),
                     SummaryItem("Language", OrElse(upper, JStr("-"))),
                     SummaryItem("Duration", JStr(toFixed1(dur.n) \o " sec")),
                     SummaryItem("Consent",
                                 JStr(IF Truthy(Prop(payload, "consent"))
                                      THEN "Received" ELSE "Not specified")) >>
                partialRow ==
                  IF Truthy(Prop(payload, "partial"))
                  THEN << SummaryItem("LLM", JStr("Partial answer")) >>
                  ELSE << >>
            IN Done(base \o items \o partialRow)

\* Math.max(0, Math.min(1, rawValue)) in hundredths
Clamp01(n) ==
  LET lo == IF n < 100 THEN n ELSE 100
  IN IF lo > 0 THEN lo ELSE 0

\* the fill fraction of one score bar, in hundredths
ScoreFill(rawValue) == IF rawValue.t = "num" THEN Clamp01(rawValue.n) ELSE 0

ScoreRow(entry) ==
  LET value == ScoreFill(entry.raw)
  IN Box("div", "score-row",
         << El("span", "score-label", entry.label),
            Box("div", "score-bar",
                << [tag |-> "div", cls |-> "score-bar__fill", scale |-> value,
                    transform |-> "scaleX(" \o NumToString(value) \o ")",
                    transformOrigin |-> "left"] >>),
            El("span", "score-value", toFixed2(Coalesce(entry.raw, JNum(0)).n)) >>)

\* (rawValue ?? 0).toFixed(2) throws unless the value is a number
ScoreRowThrows(entry) == Coalesce(entry.raw, JNum(0)).t # "num"

renderScores(prev, arg) ==
  LET base == clearContainer(prev)
      scores == DefaultParam(arg, EmptyObj)
  IN IF Nullish(scores) THEN Threw(base)
     ELSE
       LET map == << [label |-> "Empathy", raw |-> Prop(scores, "empathy")],
                     [label |-> "Compliance", raw |-> Prop(scores, "compliance")],
                     [label |-> "Structure", raw |-> Prop(scores, "structure")] >>
       IN AppendEach(base,
                     [i \in 1..Len(map) |-> ScoreRowThrows(map[i])],
                     [i \in 1..Len(map) |->
                        IF ScoreRowThrows(map[i]) THEN Undef ELSE ScoreRow(map[i])])

OperationalRow(label, value) == << El("dt", "", label), El("dd", "", value) >>

renderOperational(prev, arg) ==
  LET base == clearContainer(prev)
      operational == DefaultParam(arg, EmptyObj)
  IN IF Nullish(operational) THEN Threw(base)
     ELSE
       LET speech == OrElse(Prop(operational, "speechRateWpm"), EmptyObj)
           interruptions == OrElse(Prop(operational, "interruptions"), EmptyObj)
       IN Done(base
               \o OperationalRow("Silence", fmtPercent(Prop(operational, "silencePct")))
               \o OperationalRow("Overlaps", fmtPercent(Prop(operational, "overlapPct")))
               \o OperationalRow("Speech rate (manager)",
                    JsString(Coalesce(Prop(speech, "manager"), JNum(0))) \o " wpm")
               \o OperationalRow("Speech rate (client)",
                    JsString(Coalesce(Prop(speech, "client"), JNum(0))) \o " wpm")
               \o OperationalRow("Manager interruptions",
                    JsString(Coalesce(Prop(interruptions, "byManager"), JNum(0))))
               \o OperationalRow("Client interruptions",
                    JsString(Coalesce(Prop(interruptions, "byClient"), JNum(0)))))

\* the single placeholder of an empty section
Placeholder(text) == El("p", "empty", text)

\* reading a field of a null or missing list item throws
ItemThrows(item) == Nullish(item)

ChecklistCard(item) ==
  LET evidence ==
        IF Truthy(Prop(item, "evidence"))
        THEN JsString(OrElse(Prop(item, "ts"), JStr(""))) \o " . "
             \o JsString(Prop(item, "evidence"))
        ELSE ""
      fixed ==
        << El("div", "card__title",
              JsString(OrElse(Prop(item, "id"), JStr("Item"))) \o " . "
              \o JsString(Coalesce(Prop(item, "score"), JNum(0))) \o "/"
              \o JsString(Coalesce(Prop(item, "max"), JNum(0)))),
           El("div", "card__meta",
              IF Truthy(Prop(item, "passed")) THEN "Done" ELSE "Needs attention"),
           El("p", "", JsString(OrElse(Prop(item, "reason"), JStr("--")))) >>
  IN Box("article", "card",
         IF evidence # "" THEN Append(fixed, El("p", "card__meta", evidence)) ELSE fixed)

HighlightCard(item) ==
  LET meta == JsString(OrElse(Prop(item, "ts"), JStr("")))
      fixed ==
        << El("div", "card__title", JsString(OrElse(Prop(item, "type"), JStr("Event")))),
           El("p", "", JsString(OrElse(Prop(item, "quote"), JStr("--")))) >>
  IN Box("article", "card card--highlight",
         IF meta # "" THEN Append(fixed, El("div", "card__meta", meta)) ELSE fixed)

\* seg.start.toFixed(2) and seg.end.toFixed(2) throw unless both are numbers
SegmentThrows(seg) ==
  \/ Nullish(seg)
  \/ Prop(seg, "start").t # "num"
  \/ Prop(seg, "end").t # "num"

TranscriptRow(seg) ==
  Box("div", "transcript-row",
      << El("div", "transcript-meta",
            JsString(OrElse(Prop(seg, "speaker"), JStr("?"))) \o " . "
            \o toFixed2(Prop(seg, "start").n) \o "-" \o toFixed2(Prop(seg, "end").n) \o " s"),
         El("div", "transcript-text", JsString(OrElse(Prop(seg, "text"), JStr("")))) >>)

\* whether the loop body of a list section throws on an item
CardThrows(section, item) ==
  IF section = "transcript" THEN SegmentThrows(item) ELSE ItemThrows(item)

\* the element the loop body of a list section builds for an item
CardOf(section, item) ==
  CASE section = "checklist" -> ChecklistCard(item)
    [] section = "highlights" -> HighlightCard(item)
    [] section = "transcript" -> TranscriptRow(item)

\* the shared shape of the three list sections: placeholder when !list.length,
\* otherwise one element per item
ListSection(prev, arg, emptyText, section) ==
  LET base == clearContainer(prev)
      list == DefaultParam(arg, JArr(<< >>))
  IN IF Nullish(list) THEN Threw(base)
     ELSE IF ~Truthy(Prop(list, "length")) THEN Done(Append(base, Placeholder(emptyText)))
     ELSE IF list.t # "arr" THEN Threw(base)
     ELSE AppendEach(base,
                     [i \in 1..Len(list.a) |-> CardThrows(section, list.a[i])],
                     [i \in 1..Len(list.a) |->
                        IF CardThrows(section, list.a[i]) THEN Undef
                        ELSE CardOf(section, list.a[i])])

renderChecklist(prev, arg) == ListSection(prev, arg, "Checklist is empty", "checklist")

renderHighlights(prev, arg) == ListSection(prev, arg, "No highlights", "highlights")

renderTranscript(prev, arg) == ListSection(prev, arg, "No segments", "transcript")

\* the six containers and the results section's hidden flag
Sections == << "summary", "scoreCard", "operational", "checklist", "highlights", "transcript" >>

\* section i of render(payload), applied to that container's children
RenderSection(i, prev, payload) ==
  CASE i = 1 -> renderSummary(prev, payload)
    [] i = 2 -> renderScores(prev, Prop(payload, "scores"))
    [] i = 3 -> renderOperational(prev, Prop(payload, "operational"))
    [] i = 4 -> renderChecklist(prev, Prop(payload, "checklist"))
    [] i = 5 -> renderHighlights(prev, Prop(payload, "highlights"))
    [] OTHER -> renderTranscript(prev, Prop(payload, "transcript"))

\* render(payload) on the page d: the sections run in order; the first one
\* that throws ends the call, leaving the later containers and the hidden
\* flag as they were
RECURSIVE RenderFrom(_, _, _)
RenderFrom(i, d, payload) ==
  IF i > Len(Sections) THEN [dom |-> [d EXCEPT !.resultsHidden = FALSE], threw |-> FALSE]
  ELSE
    LET r == RenderSection(i, d[Sections[i]], payload)
        d2 == [d EXCEPT ![Sections[i]] = r.kids]
    IN IF r.threw THEN [dom |-> d2, threw |-> TRUE]
       ELSE RenderFrom(i + 1, d2, payload)

render(d, payload) == RenderFrom(1, d, payload)

\* ----------------------------------------------------------- inputs
\* the reports the analysis service is modelled to answer with
ReportFull ==
  JObj([callId |-> JStr("call-42"), lang |-> JStr("ru"), durationSec |-> JNum(12345),
        consent |-> JBool(TRUE), partial |-> JBool(FALSE),
        scores |-> JObj([empathy |-> JNum(-20), compliance |-> JNum(150),
                         structure |-> JNum(73)]),
        operational |->
          JObj([silencePct |-> JNum(1250), overlapPct |-> JNum(300),
                speechRateWpm |-> JObj([manager |-> JNum(12000), client |-> JNum(9500)]),
                interruptions |-> JObj([byManager |-> JNum(200), byClient |-> JNum(100)])]),
        checklist |->
          JArr(<< JObj([id |-> JStr("greeting"), score |-> JNum(100), max |-> JNum(200),
                        passed |-> JBool(TRUE), reason |-> JStr("greeted"),
                        evidence |-> JStr("hello"), ts |-> JStr("00:01")]),
                  JObj([id |-> JStr("closing"), score |-> JNum(0), max |-> JNum(100),
                        passed |-> JBool(FALSE), reason |-> JNull]) >>),
        highlights |->
          JArr(<< JObj([type |-> JStr("objection"), quote |-> JStr("too expensive"),
                        ts |-> JStr("00:42")]),
                  JObj([type |-> JStr("praise"), quote |-> JStr("thank you")]) >>),
        transcript |->
          JArr(<< JObj([speaker |-> JStr("manager"), start |-> JNum(0), end |-> JNum(250),
                        text |-> JStr("hello")]),
                  JObj([speaker |-> JStr("client"), start |-> JNum(250), end |-> JNum(400),
                        text |-> JStr("hi")]) >>),
        reportHtml |-> JStr("<html>call-42</html>")])

\* a partial answer with every optional part absent and no call id
ReportDegraded ==
  JObj([partial |-> JBool(TRUE),
        checklist |-> JArr(<< EmptyObj >>),
        highlights |-> JArr(<< EmptyObj >>),
        transcript |-> JArr(<< >>)])

\* a report whose call id is the empty string
ReportEmptyId ==
  JObj([callId |-> JStr(""), lang |-> JStr("en"), durationSec |-> JNum(6000),
        partial |-> JBool(FALSE), reportHtml |-> JStr("<html></html>")])

\* a report whose scores part is null
ReportNullScores ==
  JObj([callId |-> JStr("call-9"), partial |-> JBool(FALSE), scores |-> JNull,
        reportHtml |-> JStr("<html>call-9</html>")])

\* a report whose second transcript segment has no start and no end
ReportBadSegment ==
  JObj([callId |-> JStr("call-11"), partial |-> JBool(FALSE),
        transcript |->
          JArr(<< JObj([speaker |-> JStr("manager"), start |-> JNum(0), end |-> JNum(100),
                        text |-> JStr("hello")]),
                  JObj([speaker |-> JStr("client"), text |-> JStr("hi")]) >>)])

Reports == {ReportFull, ReportDegraded, ReportEmptyId, ReportNullScores, ReportBadSegment}

\* a response body that is not JSON
Malformed == [t |-> "malformed"]

\* an error body of the service
ErrQuota == JObj([detail |-> JStr("quota exceeded")])

\* a report in the shape the web front-end reads
WebReportFull ==
  JObj([callId |-> JStr("call-42"), language |-> JStr("ru"), durationSec |-> JNum(12345),
        consent |-> JBool(TRUE),
        scores |->
          JObj([empathy |-> JNum(80), compliance |-> JNum(150), structure |-> JNull,
                checklist |->
                  JArr(<< JObj([id |-> JStr("greeting"), passed |-> JBool(TRUE),
                                reason |-> JStr("greeted"), evidence |-> JStr("hello"),
                                ts |-> JStr("00:01")]),
                          EmptyObj >>),
                highlights |->
                  JArr(<< JObj([type |-> JStr("objection"), quote |-> JStr("5 < 7"),
                                ts |-> JStr("00:42")]) >>)]),
        operational |->
          JObj([silencePct |-> JNum(1250), overlapPct |-> JNum(300),
                speechRateWpm |-> JObj([manager |-> JNum(12000), client |-> JNum(9500)]),
                interruptions |-> JObj([byManager |-> JNum(200)])]),
        segments |->
          JArr(<< JObj([ts |-> JStr("00:00"), speaker |-> JStr("manager"),
                        text |-> JStr("hello")]),
                  JObj([ts |-> JStr("00:02"), speaker |-> JStr("client"),
                        text |-> JStr("hi")]) >>),
        artifacts |-> JObj([json |-> JObj([url |-> JStr("/artifacts/call-42.json")]),
                            html |-> JObj([path |-> JStr("out/call-42.html")])])])

\* the { data: report } envelope of the web front-end
Envelope(report) == JObj([data |-> report])

\* the bodies of the responses to POST /api/analyze, by front-end and response.ok
Bodies(f, ok) ==
  IF ~ok THEN {ErrQuota, EmptyObj, JNull, Malformed}
  ELSE IF f = "main" THEN Reports \cup {JNull, Malformed}
  ELSE {Envelope(WebReportFull), Envelope(ReportDegraded), EmptyObj, Malformed}

\* the size limit of the main front-end, in bytes
MaxFileSize == 100 * 1024 * 1024

\* the file input: no file selected, or one file of a given size
NoFile == [present |-> FALSE]
File(size) == [present |-> TRUE, size |-> size]
Files == {NoFile, File(MaxFileSize), File(MaxFileSize + 1)}

\* ------------------------------------------------------- status texts
MsgChooseFile == "Choose an audio file"
MsgTooLarge == "File is larger than 100 MB"
MsgUploading == "File uploaded, starting analysis..."
MsgAnalyzeFailed == "Could not run the analysis"
MsgReady == "Done! The report is saved in the artifacts."
MsgAnalyzeError == "Error during analysis"
MsgAnalyzeFirst == "Run an analysis first"
MsgNoHtml == "No HTML report"
web_MsgAnalyzing == "Analyzing the call..."
web_MsgError == "Analysis error"
web_MsgDone == "Done"

\* the messages of the exceptions the platform throws
ErrFailedToFetch == "Failed to fetch"
ErrSyntax == "Unexpected token in JSON"
ErrType == "Cannot read properties of null"

\* ------------------------------------------------------------- state
VARIABLES
  frontend,        \* which script the page runs: "main" or "web"
  pending,         \* the suspended submit handlers, one per analyze request in flight
  submitDisabled,  \* submitBtn.disabled
  status,          \* statusEl: textContent and dataset.type
  lastPayload,     \* the held report
  dom,             \* the children of the six containers, resultsSection.hidden
  resultEl,        \* web: the result element
  posts,           \* the number of POST /api/analyze requests issued
  accepted,        \* the number of submit events that passed validation
  download,        \* the file saved last through link.click()
  opened,          \* the document opened last through window.open
  urls,            \* the object URLs created, in order
  health,          \* the health probe
  uncaught,        \* an exception left a handler
  received,        \* the body of the latest 2xx JSON response
  lastEvent        \* the event handled last, with its input

vars == << frontend, pending, submitDisabled, status, lastPayload, dom, resultEl, posts,
           accepted, download, opened, urls, health, uncaught, received, lastEvent >>

setStatus(message, type) == [text |-> message, type |-> type]

\* nothing saved or opened yet
NoExport == [url |-> 0]

EmptyDom ==
  [summary |-> << >>, scoreCard |-> << >>, operational |-> << >>, checklist |-> << >>,
   highlights |-> << >>, transcript |-> << >>, resultsHidden |-> TRUE]

InitFor(f) ==
  /\ frontend = f
  /\ pending = {}
  /\ submitDisabled = FALSE
  /\ status = [text |-> "", type |-> ""]
  /\ lastPayload = JNull
  /\ dom = EmptyDom
  /\ resultEl = [hidden |-> TRUE, html |-> << >>]
  /\ posts = 0
  /\ accepted = 0
  /\ download = NoExport
  /\ opened = NoExport
  /\ urls = << >>
  /\ health = IF f = "main" THEN "pending" ELSE "none"
  /\ uncaught = FALSE
  /\ received = JNull
  /\ lastEvent = [kind |-> "load"]

\* --------------------------------------------------- JSON text
\* JSON text is a sequence of tokens; "indent" is the line break and the
\* spaces of pretty-printing
Tok(k) == [k |-> k]
TokStr(s) == [k |-> "string", s |-> s]
TokNum(n) == [k |-> "number", n |-> n]
TokKey(s) == [k |-> "key", s |-> s]
TokIndent(n) == [k |-> "indent", n |-> n]

\* the property names of the modelled bodies, in the order the bodies list them
KeyOrder ==
  << "data", "detail", "callId", "lang", "durationSec", "consent", "partial", "scores",
     "empathy", "compliance", "structure", "operational", "silencePct", "overlapPct",
     "speechRateWpm", "manager", "client", "interruptions", "byManager", "byClient",
     "checklist", "id", "score", "max", "passed", "reason", "evidence", "ts",
     "highlights", "type", "quote", "transcript", "speaker", "start", "end", "text",
     "reportHtml", "language", "segments", "artifacts", "json", "html", "url", "path" >>

OwnKeys(o) == SelectSeq(KeyOrder, LAMBDA k : k \in DOMAIN o)

\* JSON.stringify(v, null, 2) of a value nested `depth` levels deep
RECURSIVE Stringify(_, _), StringifyElems(_, _, _), StringifyMembers(_, _, _, _)
Stringify(v, depth) ==
  CASE v.t = "null" -> << Tok("null") >>
    [] v.t = "bool" -> << Tok(IF v.b THEN "true" ELSE "false") >>
    [] v.t = "num" -> << TokNum(v.n) >>
    [] v.t = "str" -> << TokStr(v.s) >>
    [] v.t = "arr" ->
         IF v.a = << >> THEN << Tok("["), Tok("]") >>
         ELSE << Tok("[") >> \o StringifyElems(v.a, 1, depth + 1)
              \o << TokIndent(2 * depth), Tok("]") >>
    [] OTHER ->
         IF OwnKeys(v.o) = << >> THEN << Tok("{"), Tok("}") >>
         ELSE << Tok("{") >> \o StringifyMembers(v.o, OwnKeys(v.o), 1, depth + 1)
              \o << TokIndent(2 * depth), Tok("}") >>
StringifyElems(a, i, depth) ==
  IF i > Len(a) THEN << >>
  ELSE (IF i > 1 THEN << Tok(",") >> ELSE << >>)
       \o << TokIndent(2 * depth) >> \o Stringify(a[i], depth)
       \o StringifyElems(a, i + 1, depth)
StringifyMembers(o, keys, i, depth) ==
  IF i > Len(keys) THEN << >>
  ELSE (IF i > 1 THEN << Tok(",") >> ELSE << >>)
       \o << TokIndent(2 * depth), TokKey(keys[i]) >> \o Stringify(o[keys[i]], depth)
       \o StringifyMembers(o, keys, i + 1, depth)

\* JSON.parse of well-formed text: the value starting at token i, and the
\* index after it
SkipIndent(toks, i) == IF i <= Len(toks) /\ toks[i].k = "indent" THEN i + 1 ELSE i

RECURSIVE ParseValue(_, _), ParseElems(_, _, _), ParseMembers(_, _, _)
ParseValue(toks, i0) ==
  LET i == SkipIndent(toks, i0)
      tok == toks[i]
  IN CASE tok.k = "null" -> [v |-> JNull, next |-> i + 1]
       [] tok.k = "true" -> [v |-> JBool(TRUE), next |-> i + 1]
       [] tok.k = "false" -> [v |-> JBool(FALSE), next |-> i + 1]
       [] tok.k = "number" -> [v |-> JNum(tok.n), next |-> i + 1]
       [] tok.k = "string" -> [v |-> JStr(tok.s), next |-> i + 1]
       [] tok.k = "[" -> ParseElems(toks, i + 1, << >>)
       [] OTHER -> ParseMembers(toks, i + 1, << >>)
ParseElems(toks, i0, acc) ==
  LET i == SkipIndent(toks, i0)
  IN IF toks[i].k = "]" THEN [v |-> JArr(acc), next |-> i + 1]
     ELSE IF toks[i].k = "," THEN ParseElems(toks, i + 1, acc)
     ELSE LET r == ParseValue(toks, i)
          IN ParseElems(toks, r.next, Append(acc, r.v))
ParseMembers(toks, i0, acc) ==
  LET i == SkipIndent(toks, i0)
  IN IF toks[i].k = "}" THEN [v |-> JObj(acc), next |-> i + 1]
     ELSE IF toks[i].k = "," THEN ParseMembers(toks, i + 1, acc)
     ELSE LET r == ParseValue(toks, i + 1)
          IN ParseMembers(toks, r.next, (toks[i].s :> r.v) @@ acc)

JsonParse(toks) == ParseValue(toks, 1).v

\* ------------------------------------------- main: the submit handler
\* the validation of the handler: the message it stops with, "" when it goes on
main_validate(file) ==
  IF ~file.present THEN MsgChooseFile
  ELSE IF file.size > MaxFileSize THEN MsgTooLarge
  ELSE ""

\* the FormData of the request
main_FormData(file, consent) ==
  IF consent THEN [audio |-> file, consent |-> "true"] ELSE [audio |-> file]

\* the submit event of the analyze form. The user agent submits no form
\* through a disabled submit button, so the event reaches the handler only
\* while the button is enabled
main_submit(file, consent) ==
  /\ frontend = "main"
  /\ ~submitDisabled
  /\ IF main_validate(file) # ""
     THEN /\ status' = setStatus(main_validate(file), "error")
          /\ UNCHANGED << pending, submitDisabled, posts, accepted >>
     ELSE /\ accepted < MaxSubmits
          /\ accepted' = accepted + 1
          /\ submitDisabled' = TRUE
          /\ status' = setStatus(MsgUploading, "info")
          /\ posts' = posts + 1
          /\ pending' = pending \cup {[id |-> posts + 1, stage |-> "fetch",
                                       form |-> main_FormData(file, consent)]}
  /\ lastEvent' = [kind |-> "submit", file |-> file]
  /\ UNCHANGED << frontend, lastPayload, dom, resultEl, download, opened, urls, health,
                  uncaught, received >>

\* fetch() resolves with the head of a response, in either front-end: the
\* handler goes on to await response.json(), which reads the body
FetchResolves(h, ok) ==
  /\ h \in pending
  /\ h.stage = "fetch"
  /\ pending' = (pending \ {h}) \cup {[id |-> h.id, stage |-> "json", ok |-> ok]}
  /\ lastEvent' = [kind |-> "response", id |-> h.id]
  /\ UNCHANGED << frontend, submitDisabled, status, lastPayload, dom, resultEl, posts,
                  accepted, download, opened, urls, health, uncaught, received >>

\* the try block, were it to hold the payload before testing response.ok
main_try_holdsEarly(resp, ui) ==
  IF resp.body = Malformed
  THEN [threw |-> TRUE, message |-> ErrSyntax, ui |-> ui]
  ELSE IF ~resp.ok
  THEN [threw |-> TRUE,
        message |-> IF Nullish(resp.body) THEN ErrType
                    ELSE JsString(OrElse(Prop(resp.body, "detail"), JStr(MsgAnalyzeFailed))),
        ui |-> [ui EXCEPT !.lastPayload = resp.body]]
  ELSE
    LET r == render(ui.dom, resp.body)
        held == [ui EXCEPT !.lastPayload = resp.body, !.dom = r.dom]
    IN IF r.threw
       THEN [threw |-> TRUE, message |-> ErrType, ui |-> held]
       ELSE [threw |-> FALSE, message |-> "",
             ui |-> [held EXCEPT !.status = setStatus(MsgReady, "success")]]

\* the try block from the point where response.json() settles. ui is the
\* page state it works on: lastPayload, dom, status
main_try(resp, ui) ==
  IF resp.body = Malformed
  THEN [threw |-> TRUE, message |-> ErrSyntax, ui |-> ui]
  ELSE IF ~resp.ok
  THEN IF Nullish(resp.body)
       THEN [threw |-> TRUE, message |-> ErrType, ui |-> ui]
       ELSE [threw |-> TRUE,
             message |-> JsString(OrElse(Prop(resp.body, "detail"), JStr(MsgAnalyzeFailed))),
             ui |-> ui]
  ELSE
    LET r == render(ui.dom, resp.body)
        held == [ui EXCEPT !.lastPayload = resp.body, !.dom = r.dom]
    IN IF r.threw
       THEN [threw |-> TRUE, message |-> ErrType, ui |-> held]
       ELSE [threw |-> FALSE, message |-> "",
             ui |-> [held EXCEPT !.status = setStatus(MsgReady, "success")]]

\* the catch block, were it to drop the held report
main_catch_dropsReport(message, ui) ==
  [ui EXCEPT !.status = setStatus(IF message # "" THEN message ELSE MsgAnalyzeError, "error"),
             !.lastPayload = JNull]

\* the catch block
main_catch(message, ui) ==
  [ui EXCEPT !.status = setStatus(IF message # "" THEN message ELSE MsgAnalyzeError, "error")]

\* try / catch with the button re-enabled at the end of the try block
\* instead of in a finally block
main_finish_noFinally(t) ==
  [ui |-> IF t.threw THEN main_catch(t.message, t.ui) ELSE t.ui,
   submitDisabled |-> t.threw,
   uncaught |-> FALSE]

\* try / catch / finally: the page state the handler leaves, the button's
\* disabled flag included, and whether an exception left the handler
main_finish(t) ==
  [ui |-> IF t.threw THEN main_catch(t.message, t.ui) ELSE t.ui,
   submitDisabled |-> FALSE,
   uncaught |-> FALSE]

main_ui == [lastPayload |-> lastPayload, dom |-> dom, status |-> status]

main_commit(f) ==
  /\ lastPayload' = f.ui.lastPayload
  /\ dom' = f.ui.dom
  /\ status' = f.ui.status
  /\ submitDisabled' = f.submitDisabled
  /\ uncaught' = (uncaught \/ f.uncaught)

\* response.json() settles on the body and the handler runs to its end
main_jsonSettles(h, body) ==
  /\ frontend = "main"
  /\ h \in pending
  /\ h.stage = "json"
  /\ body \in Bodies("main", h.ok)
  /\ pending' = pending \ {h}
  /\ main_commit(main_finish(main_try([ok |-> h.ok, body |-> body], main_ui)))
  /\ received' = IF h.ok /\ body # Malformed THEN body ELSE received
  /\ lastEvent' = [kind |-> "settled", id |-> h.id, ok |-> h.ok, body |-> body]
  /\ UNCHANGED << frontend, resultEl, posts, accepted, download, opened, urls, health >>

\* a network failure, were the handler to send the request again
main_fetchRejects_retries(h) ==
  /\ frontend = "main"
  /\ h \in pending
  /\ h.stage = "fetch"
  /\ posts < MaxSubmits + 1
  /\ posts' = posts + 1
  /\ lastEvent' = [kind |-> "failed", id |-> h.id]
  /\ UNCHANGED << frontend, pending, submitDisabled, status, lastPayload, dom, resultEl,
                  accepted, download, opened, urls, health, uncaught, received >>

\* fetch() rejects: the network failed
main_fetchRejects(h) ==
  /\ frontend = "main"
  /\ h \in pending
  /\ h.stage = "fetch"
  /\ pending' = pending \ {h}
  /\ main_commit(main_finish([threw |-> TRUE, message |-> ErrFailedToFetch, ui |-> main_ui]))
  /\ lastEvent' = [kind |-> "failed", id |-> h.id]
  /\ UNCHANGED << frontend, resultEl, posts, accepted, download, opened, urls, health,
                  received >>

\* ---------------------------------------------------- main: exports
\* the name of the saved file
downloadName(payload) == JsString(OrElse(Prop(payload, "callId"), JStr("report"))) \o ".json"

\* an object URL, were the export to set no revoke timer
ObjectUrl_noTimer == [timer |-> FALSE, revoked |-> FALSE]

\* an object URL with its revoke timer set
ObjectUrl == [timer |-> TRUE, revoked |-> FALSE]

\* the data export, were it to release the held report after saving it
downloadJson_clearsReport ==
  /\ frontend = "main"
  /\ IF ~Truthy(lastPayload)
     THEN /\ status' = setStatus(MsgAnalyzeFirst, "error")
          /\ UNCHANGED << urls, download, lastPayload >>
     ELSE /\ Len(urls) < MaxExports
          /\ urls' = Append(urls, ObjectUrl)
          /\ download' = [name |-> downloadName(lastPayload), url |-> Len(urls) + 1,
                          content |-> Stringify(lastPayload, 0)]
          /\ lastPayload' = JNull
          /\ UNCHANGED status
  /\ lastEvent' = [kind |-> "downloadJson"]
  /\ UNCHANGED << frontend, pending, submitDisabled, dom, resultEl, posts,
                  accepted, opened, health, uncaught, received >>

\* click on download-json
downloadJson ==
  /\ frontend = "main"
  /\ IF ~Truthy(lastPayload)
     THEN /\ status' = setStatus(MsgAnalyzeFirst, "error")
          /\ UNCHANGED << urls, download >>
     ELSE /\ Len(urls) < MaxExports
          /\ urls' = Append(urls, ObjectUrl)
          /\ download' = [name |-> downloadName(lastPayload), url |-> Len(urls) + 1,
                          content |-> Stringify(lastPayload, 0)]
          /\ UNCHANGED status
  /\ lastEvent' = [kind |-> "downloadJson"]
  /\ UNCHANGED << frontend, pending, submitDisabled, lastPayload, dom, resultEl, posts,
                  accepted, opened, health, uncaught, received >>

\* the guard of open-html, were it to test lastPayload alone
reportHtmlOf_payloadOnly(payload) ==
  IF Nullish(payload) THEN Undef ELSE OrElse(Prop(payload, "reportHtml"), JStr("undefined"))

\* lastPayload?.reportHtml
reportHtmlOf(payload) == IF Nullish(payload) THEN Undef ELSE Prop(payload, "reportHtml")

\* click on open-html
openHtml ==
  /\ frontend = "main"
  /\ IF ~Truthy(reportHtmlOf(lastPayload))
     THEN /\ status' = setStatus(MsgNoHtml, "error")
          /\ UNCHANGED << urls, opened >>
     ELSE /\ Len(urls) < MaxExports
          /\ urls' = Append(urls, ObjectUrl)
          /\ opened' = [url |-> Len(urls) + 1, target |-> "_blank",
                        content |-> JsString(reportHtmlOf(lastPayload))]
          /\ UNCHANGED status
  /\ lastEvent' = [kind |-> "openHtml"]
  /\ UNCHANGED << frontend, pending, submitDisabled, lastPayload, dom, resultEl, posts,
                  accepted, download, health, uncaught, received >>

\* the oldest revoke timer fires (the timers share one delay, so they fire
\* in the order they were set)
revokeTimer(u) ==
  /\ u \in 1..Len(urls)
  /\ urls[u].timer
  /\ \A v \in 1..(u - 1) : ~urls[v].timer
  /\ urls' = [urls EXCEPT ![u] = [@ EXCEPT !.timer = FALSE, !.revoked = TRUE]]
  /\ lastEvent' = [kind |-> "revoke", url |-> u]
  /\ UNCHANGED << frontend, pending, submitDisabled, status, lastPayload, dom, resultEl,
                  posts, accepted, download, opened, health, uncaught, received >>

\* the probe, were it to surface a failure to the user
pingHealth_reportsFailure(outcome) ==
  /\ frontend = "main"
  /\ health = "pending"
  /\ health' = IF outcome = "ok" THEN "passed" ELSE "warned"
  /\ status' = IF outcome = "ok" THEN status ELSE setStatus("health check failed", "error")
  /\ lastEvent' = [kind |-> "health"]
  /\ UNCHANGED << frontend, pending, submitDisabled, lastPayload, dom, resultEl,
                  posts, accepted, download, opened, urls, uncaught, received >>

\* ---------------------------------------------- main: health probe
\* GET /api/health settles: a 2xx response, another response, or a network
\* failure; the last two are logged with console.warn
pingHealth(outcome) ==
  /\ frontend = "main"
  /\ health = "pending"
  /\ health' = IF outcome = "ok" THEN "passed" ELSE "warned"
  /\ lastEvent' = [kind |-> "health"]
  /\ UNCHANGED << frontend, pending, submitDisabled, status, lastPayload, dom, resultEl,
                  posts, accepted, download, opened, urls, uncaught, received >>

HealthOutcomes == {"ok", "not ok", "network"}

MainNext ==
  \/ \E file \in Files, consent \in BOOLEAN : main_submit(file, consent)
  \/ \E h \in pending, ok \in BOOLEAN : FetchResolves(h, ok)
  \/ \E h \in pending, body \in Bodies("main", TRUE) \cup Bodies("main", FALSE) :
        main_jsonSettles(h, body)
  \/ \E h \in pending : main_fetchRejects(h)
  \/ downloadJson
  \/ openHtml
  \/ \E u \in 1..Len(urls) : revokeTimer(u)
  \/ \E outcome \in HealthOutcomes : pingHealth(outcome)

MainSpec == InitFor("main") /\ [][MainNext]_vars

\* the page stays open, so a revoke timer that is set fires (setTimeout with
\* a delay of 1000 ms)
MainFairSpec == MainSpec /\ WF_vars(\E u \in 1..Len(urls) : revokeTimer(u))

\* ------------------------------------------------ web: the renderer
\* escapeHtml on the texts of the modelled reports: one of them holds a
\* character to escape, and a double quote occurs only where JSON.stringify
\* puts one (see CompactJson)
escapeHtml(text) ==
  CASE text = "5 < 7" -> "5 &lt; 7"
    [] OTHER -> text

\* escapeHtml(JSON.stringify(v)) for a v without undefined members: compact
\* JSON text with every double quote written as &quot;
RECURSIVE CompactJson(_), CompactElems(_, _), CompactMembers(_, _, _)
CompactJson(v) ==
  CASE v.t = "null" -> "null"
    [] v.t = "bool" -> IF v.b THEN "true" ELSE "false"
    [] v.t = "num" -> NumToString(v.n)
    [] v.t = "str" -> "&quot;" \o v.s \o "&quot;"
    [] v.t = "arr" -> "[" \o CompactElems(v.a, 1) \o "]"
    [] OTHER -> "{" \o CompactMembers(v.o, OwnKeys(v.o), 1) \o "}"
CompactElems(a, i) ==
  IF i > Len(a) THEN ""
  ELSE (IF i > 1 THEN "," ELSE "") \o CompactJson(a[i]) \o CompactElems(a, i + 1)
CompactMembers(o, keys, i) ==
  IF i > Len(keys) THEN ""
  ELSE (IF i > 1 THEN "," ELSE "") \o "&quot;" \o keys[i] \o "&quot;:"
       \o CompactJson(o[keys[i]]) \o CompactMembers(o, keys, i + 1)

\* x?.k
OptProp(v, k) == IF Nullish(v) THEN Undef ELSE Prop(v, k)

web_renderScoreCard(title, value) ==
  [cls |-> "score-card", title |-> escapeHtml(title),
   value |-> IF value.t = "num" THEN toFixed2(value.n) ELSE "-"]

web_renderArtifactLink(label, info) ==
  IF ~Truthy(info) THEN << >>
  ELSE LET url == OrElse(Prop(info, "url"), Prop(info, "path"))
       IN IF ~Truthy(url) THEN << >>
          ELSE << [tag |-> "a", href |-> escapeHtml(JsString(url)), target |-> "_blank",
                   text |-> escapeHtml(label)] >>

\* (x ?? 0).toFixed(2) throws unless x is a number or missing
web_pctThrows(operational, k) == Coalesce(Prop(operational, k), JNum(0)).t # "num"

web_renderOperational(arg) ==
  LET operational == DefaultParam(arg, EmptyObj)
  IN IF Nullish(operational) THEN Threw(<< >>)
     ELSE IF web_pctThrows(operational, "silencePct") \/ web_pctThrows(operational, "overlapPct")
     THEN Threw(<< >>)
     ELSE Done(<< "Silence: "
                    \o toFixed2(Coalesce(Prop(operational, "silencePct"), JNum(0)).n) \o "%",
                  "Overlaps: "
                    \o toFixed2(Coalesce(Prop(operational, "overlapPct"), JNum(0)).n) \o "%",
                  "Speech rate: "
                    \o CompactJson(OrElse(Prop(operational, "speechRateWpm"), EmptyObj)),
                  "Interruptions: "
                    \o CompactJson(OrElse(Prop(operational, "interruptions"), EmptyObj)) >>)

\* String(x ?? "")
TextOr(v) == escapeHtml(JsString(Coalesce(v, JStr(""))))

web_checklistRow(item) ==
  << TextOr(Prop(item, "id")), IF Truthy(Prop(item, "passed")) THEN "passed" ELSE "warning",
     TextOr(Prop(item, "reason")), TextOr(Prop(item, "evidence")), TextOr(Prop(item, "ts")) >>

web_highlightRow(item) ==
  << TextOr(Prop(item, "type")), TextOr(Prop(item, "quote")), TextOr(Prop(item, "ts")) >>

web_transcriptRow(segment) ==
  << TextOr(Prop(segment, "ts")), TextOr(Prop(segment, "speaker")),
     TextOr(Prop(segment, "text")) >>

\* the shared shape of renderChecklist, renderHighlights and renderTranscript:
\* a muted paragraph when !items.length, otherwise items.map(row)
web_rowOf(section, item) ==
  CASE section = "checklist" -> web_checklistRow(item)
    [] section = "highlights" -> web_highlightRow(item)
    [] section = "transcript" -> web_transcriptRow(item)

web_renderList(items, emptyText, section) ==
  IF ~Truthy(Prop(items, "length")) THEN Done(<< [tag |-> "p", cls |-> "muted", text |-> emptyText] >>)
  ELSE IF items.t # "arr" THEN Threw(<< >>)
  ELSE AppendEach(<< >>,
                  [i \in 1..Len(items.a) |-> ItemThrows(items.a[i])],
                  [i \in 1..Len(items.a) |->
                     IF ItemThrows(items.a[i]) THEN Undef
                     ELSE web_rowOf(section, items.a[i])])

\* renderResult(data): the markup assigned to resultEl.innerHTML, or a throw
\* before the assignment
web_renderResult(data) ==
  IF Nullish(data) THEN [threw |-> TRUE, html |-> << >>]
  ELSE
    LET scores == Prop(data, "scores")
        dur == Prop(data, "durationSec")
        operational == web_renderOperational(Prop(data, "operational"))
        checklist == web_renderList(OrElse(OptProp(scores, "checklist"), JArr(<< >>)),
                                    "No checklist items", "checklist")
        highlights == web_renderList(OrElse(OptProp(scores, "highlights"), JArr(<< >>)),
                                     "No highlights", "highlights")
        transcript == web_renderList(OrElse(Prop(data, "segments"), JArr(<< >>)),
                                     "No transcript", "transcript")
    IN IF operational.threw \/ checklist.threw \/ highlights.threw \/ transcript.threw
       THEN [threw |-> TRUE, html |-> << >>]
       ELSE [threw |-> FALSE,
             html |->
               << [title |-> "Call report " \o escapeHtml(JsString(Prop(data, "callId"))),
                   meta |-> "Language: "
                            \o escapeHtml(JsString(OrElse(Prop(data, "language"), JStr("-"))))
                            \o " . Duration: "
                            \o (IF dur.t = "num" THEN toFixed2(dur.n) ELSE JsString(dur))
                            \o " s",
                   badge |-> IF Truthy(Prop(data, "consent")) THEN "With consent"
                             ELSE "Without confirmation",
                   scores |->
                     << web_renderScoreCard("Empathy",
                                            Coalesce(OptProp(scores, "empathy"), JNum(0))),
                        web_renderScoreCard("Compliance",
                                            Coalesce(OptProp(scores, "compliance"), JNum(0))),
                        web_renderScoreCard("Structure",
                                            Coalesce(OptProp(scores, "structure"), JNum(0))) >>,
                   artifacts |->
                     web_renderArtifactLink("JSON", OptProp(Prop(data, "artifacts"), "json"))
                     \o web_renderArtifactLink("HTML", OptProp(Prop(data, "artifacts"), "html"))
                     \o web_renderArtifactLink("Transcript",
                                               OptProp(Prop(data, "artifacts"), "transcript")),
                   operational |-> operational.kids,
                   checklist |-> checklist.kids,
                   highlights |-> highlights.kids,
                   transcript |-> transcript.kids] >>]

\* ------------------------------------------- web: the submit handler
web_FormData(file, consent) ==
  [file |-> file, consent |-> IF consent THEN "true" ELSE "false"]

\* the submit event of the upload form; the handler disables nothing
web_submit(file, consent) ==
  /\ frontend = "web"
  /\ IF ~file.present
     THEN /\ status' = [status EXCEPT !.text = MsgChooseFile]
          /\ UNCHANGED << pending, posts, accepted, resultEl >>
     ELSE /\ accepted < MaxSubmits
          /\ accepted' = accepted + 1
          /\ status' = [status EXCEPT !.text = web_MsgAnalyzing]
          /\ resultEl' = [hidden |-> TRUE, html |-> << >>]
          /\ posts' = posts + 1
          /\ pending' = pending \cup {[id |-> posts + 1, stage |-> "fetch",
                                       form |-> web_FormData(file, consent)]}
  /\ lastEvent' = [kind |-> "submit", file |-> file]
  /\ UNCHANGED << frontend, submitDisabled, lastPayload, dom, download, opened, urls, health,
                  uncaught, received >>

\* the try block from the point where response.json() settles. ui is the
\* page state it works on: resultEl, status
web_try(resp, ui) ==
  IF ~resp.ok
  THEN LET error == IF resp.body = Malformed THEN EmptyObj ELSE resp.body
       IN IF Nullish(error)
          THEN [threw |-> TRUE, message |-> ErrType, ui |-> ui]
          ELSE [threw |-> TRUE,
                message |-> JsString(OrElse(Prop(error, "detail"), JStr(web_MsgError))),
                ui |-> ui]
  ELSE IF resp.body = Malformed
  THEN [threw |-> TRUE, message |-> ErrSyntax, ui |-> ui]
  ELSE IF Nullish(resp.body)
  THEN [threw |-> TRUE, message |-> ErrType, ui |-> ui]
  ELSE
    LET r == web_renderResult(Prop(resp.body, "data"))
    IN IF r.threw
       THEN [threw |-> TRUE, message |-> ErrType, ui |-> ui]
       ELSE [threw |-> FALSE, message |-> "",
             ui |-> [resultEl |-> [hidden |-> FALSE, html |-> r.html],
                     status |-> [ui.status EXCEPT !.text = web_MsgDone]]]

\* the catch block
web_catch(message, ui) == [ui EXCEPT !.status = [ui.status EXCEPT !.text = message]]

\* try / catch: the page state the handler leaves, and whether an exception
\* left the handler
web_finish(t) ==
  [ui |-> IF t.threw THEN web_catch(t.message, t.ui) ELSE t.ui, uncaught |-> FALSE]

web_ui == [resultEl |-> resultEl, status |-> status]

web_commit(f) ==
  /\ resultEl' = f.ui.resultEl
  /\ status' = f.ui.status
  /\ uncaught' = (uncaught \/ f.uncaught)

\* response.json() settles on the body and the handler runs to its end
web_jsonSettles(h, body) ==
  /\ frontend = "web"
  /\ h \in pending
  /\ h.stage = "json"
  /\ body \in Bodies("web", h.ok)
  /\ pending' = pending \ {h}
  /\ web_commit(web_finish(web_try([ok |-> h.ok, body |-> body], web_ui)))
  /\ received' = IF h.ok /\ body # Malformed THEN body ELSE received
  /\ lastEvent' = [kind |-> "settled", id |-> h.id, ok |-> h.ok, body |-> body]
  /\ UNCHANGED << frontend, submitDisabled, lastPayload, dom, posts, accepted, download,
                  opened, urls, health >>

\* fetch() rejects: the network failed
web_fetchRejects(h) ==
  /\ frontend = "web"
  /\ h \in pending
  /\ h.stage = "fetch"
  /\ pending' = pending \ {h}
  /\ web_commit(web_finish([threw |-> TRUE, message |-> ErrFailedToFetch, ui |-> web_ui]))
  /\ lastEvent' = [kind |-> "failed", id |-> h.id]
  /\ UNCHANGED << frontend, submitDisabled, lastPayload, dom, posts, accepted, download,
                  opened, urls, health, received >>

WebNext ==
  \/ \E file \in Files, consent \in BOOLEAN : web_submit(file, consent)
  \/ \E h \in pending, ok \in BOOLEAN : FetchResolves(h, ok)
  \/ \E h \in pending, body \in Bodies("web", TRUE) \cup Bodies("web", FALSE) :
        web_jsonSettles(h, body)
  \/ \E h \in pending : web_fetchRejects(h)

WebSpec == InitFor("web") /\ [][WebNext]_vars

\* ------------------------------------------- renderScores on its own
\* the values a score may arrive with: absent, null, a string, and numbers
\* below, inside, on the ends of and above [0, 1] (in hundredths)
ScoreValues ==
  {Undef, JNull, JStr("0.5"), JNum(-20), JNum(0), JNum(73), JNum(100), JNum(150)}

ScoreKeys == << "empathy", "compliance", "structure" >>

\* a scores object; an undefined value stands for a missing key
ScoresOf(e, c, s) ==
  LET all == [empathy |-> e, compliance |-> c, structure |-> s]
  IN JObj([k \in {x \in DOMAIN all : all[x] # Undef} |-> all[k]])

\* renderScores(scores) called on the page; an exception it throws leaves
\* the call
callRenderScores(scores) ==
  /\ frontend = "main"
  /\ LET r == renderScores(dom.scoreCard, scores)
     IN /\ dom' = [dom EXCEPT !.scoreCard = r.kids]
        /\ uncaught' = r.threw
  /\ lastEvent' = [kind |-> "renderScores", scores |-> scores]
  /\ UNCHANGED << frontend, pending, submitDisabled, status, lastPayload, resultEl, posts,
                  accepted, download, opened, urls, health, received >>

ScoresNext == \E e \in ScoreValues, c \in ScoreValues, s \in ScoreValues :
                callRenderScores(ScoresOf(e, c, s))

ScoresSpec == InitFor("main") /\ [][ScoresNext]_vars

\* ------------------------------------------------------ specification
Init == InitFor("main") \/ InitFor("web")

Next ==
  \/ \E file \in Files, consent \in BOOLEAN : main_submit(file, consent)
  \/ \E file \in Files, consent \in BOOLEAN : web_submit(file, consent)
  \/ \E h \in pending, ok \in BOOLEAN : FetchResolves(h, ok)
  \/ \E h \in pending, body \in Bodies("main", TRUE) \cup Bodies("main", FALSE) :
        main_jsonSettles(h, body)
  \/ \E h \in pending, body \in Bodies("web", TRUE) \cup Bodies("web", FALSE) :
        web_jsonSettles(h, body)
  \/ \E h \in pending : main_fetchRejects(h)
  \/ \E h \in pending : web_fetchRejects(h)
  \/ downloadJson
  \/ openHtml
  \/ \E u \in 1..Len(urls) : revokeTimer(u)
  \/ \E outcome \in HealthOutcomes : pingHealth(outcome)

Spec == Init /\ [][Next]_vars

\* ------------------------------------------------------------ claims
\* C1: at most one analyze request is in flight at any time, in either
\* front-end: a submit event arriving while a request is pending issues no
\* second POST.
C1_OneRequestInFlight == Cardinality(pending) <= 1

\* a submission that violates a precondition of the upload
InvalidFile(f) == ~f.present \/ f.size > MaxFileSize

\* C2: in every front-end a submit with no file selected, or with a file
\* larger than 100 MiB, sets a validation message and issues no request.
C2_InvalidSubmitSendsNothing ==
  [][(lastEvent'.kind = "submit" /\ InvalidFile(lastEvent'.file))
       => (posts' = posts /\ pending' = pending
           /\ status'.text \in {MsgChooseFile, MsgTooLarge})]_vars

\* C3: the submit control is re-enabled after every accepted submission,
\* whatever the exit path; it is never disabled with no request pending,
\* and no exception leaves the submit handler.
C3_SubmitReenabled ==
  /\ submitDisabled => pending # {}
  /\ lastEvent.kind \in {"settled", "failed"} => ~submitDisabled
  /\ ~uncaught

\* C3 witness: a 2xx report whose rendering threw, the button enabled again
C3_Witness ==
  /\ lastEvent.kind = "settled"
  /\ lastEvent.ok
  /\ lastEvent.body = ReportNullScores
  /\ status.type = "error"
  /\ ~submitDisabled
  /\ pending = {}

\* C4: the held report starts empty and changes only when a 2xx response
\* with a JSON body completes, which replaces it with that body; every other
\* event leaves it unchanged.
C4_HeldReportOnlyFromSuccess ==
  /\ lastPayload = JNull
  /\ [][lastPayload' # lastPayload
          => (lastEvent'.kind = "settled" /\ lastEvent'.ok
              /\ lastEvent'.body # Malformed /\ lastPayload' = lastEvent'.body)]_vars

\* C4 witness: a network failure that left an earlier report held
C4_Witness ==
  /\ lastEvent.kind = "failed"
  /\ lastPayload = ReportFull

\* the fallback texts of the error paths
GenericFallbacks == {MsgAnalyzeFailed, MsgAnalyzeError, web_MsgError}

\* a body that is JSON with a non-empty detail string
HasDetail(body) ==
  /\ body.t = "obj"
  /\ "detail" \in DOMAIN body.o
  /\ body.o["detail"].t = "str"
  /\ body.o["detail"].s # ""

\* C5: after a non-2xx response the status text is exactly the body's detail
\* when the body is JSON with a non-empty detail, and a generic fallback
\* message when detail is absent or the body is not JSON (stated for the
\* bodies that are an object or not JSON at all).
C5_ErrorStatusFromDetail ==
  (lastEvent.kind = "settled" /\ ~lastEvent.ok /\ lastEvent.body # JNull)
    => IF HasDetail(lastEvent.body) THEN status.text = lastEvent.body.o["detail"].s
       ELSE status.text \in GenericFallbacks

\* the data export just performed, with a report held
ExportedNow == lastEvent.kind = "downloadJson" /\ Truthy(lastPayload)

C7_FailedExportDoesNothing ==
  [][/\ (lastEvent'.kind = "downloadJson" /\ ~Truthy(lastPayload))
          => (status' = setStatus(MsgAnalyzeFirst, "error") /\ download' = download
              /\ opened' = opened /\ urls' = urls /\ ~uncaught')
     /\ (lastEvent'.kind = "openHtml"
         /\ (Nullish(lastPayload) \/ ~Truthy(Prop(lastPayload, "reportHtml"))))
          => (status' = setStatus(MsgNoHtml, "error") /\ download' = download
              /\ opened' = opened /\ urls' = urls /\ ~uncaught')]_vars

\* C7 witness: document export refused for a held report without reportHtml
C7_Witness ==
  /\ lastEvent.kind = "openHtml"
  /\ lastPayload = ReportDegraded
  /\ status = setStatus(MsgNoHtml, "error")
  /\ opened = NoExport

\* C8: on a successful analyze response with partial = true the report is
\* held and rendered and the status is a success message whose text differs
\* from the text shown for a report with partial = false (MsgReady).
C8_PartialStatusDiffers ==
  (frontend = "main" /\ lastEvent.kind = "settled" /\ lastEvent.ok
   /\ lastEvent.body \in Reports /\ Truthy(Prop(lastEvent.body, "partial")))
    => /\ lastPayload = lastEvent.body
       /\ dom = render(EmptyDom, lastEvent.body).dom
       /\ status.type = "success"
       /\ status.text # MsgReady

\* C9: a 2xx report whose optional parts are absent or null, or whose list
\* items lack fields, renders and ends in the success status.
C9_DegradedReportRenders ==
  (frontend = "main" /\ lastEvent.kind = "settled" /\ lastEvent.ok
   /\ lastEvent.body \in Reports)
    => (status.type = "success" /\ ~dom.resultsHidden)

\* C10: each accepted submit issues exactly one POST, and no completion,
\* failed or not, issues a request or leaves one pending that was not.
C10_OnePostPerSubmit ==
  [][/\ posts' \in {posts, posts + 1}
     /\ (posts' = posts + 1) <=> (accepted' = accepted + 1)
     /\ posts' # posts => lastEvent'.kind = "submit"
     /\ lastEvent'.kind \in {"settled", "failed"}
          => (posts' = posts /\ pending' \subseteq pending)]_vars

\* C10 witness: two requests, the second one failed, nothing pending
C10_Witness ==
  /\ lastEvent.kind \in {"settled", "failed"}
  /\ status.type = "error"
  /\ posts = 2
  /\ accepted = 2
  /\ pending = {}

\* C11: the health probe is issued once, when the page loads, and settles at
\* most once; however its completion interleaves with submits and exports,
\* it changes neither the status, nor the submit control, nor the rendered
\* report, nor the held report, nor any request or export.
C11_HealthProbeIsSilent ==
  /\ health = "pending"
  /\ [][/\ health' # health => (health = "pending" /\ lastEvent'.kind = "health")
        /\ lastEvent'.kind = "health"
             => (/\ health = "pending"
                 /\ health' \in {"passed", "warned"}
                 /\ status' = status
                 /\ submitDisabled' = submitDisabled
                 /\ dom' = dom
                 /\ lastPayload' = lastPayload
                 /\ pending' = pending
                 /\ posts' = posts
                 /\ ~uncaught')]_vars

\* C11 witness: the probe failed while an analyze request was in flight and
\* a report was held
C11_Witness ==
  /\ lastEvent.kind = "health"
  /\ health = "warned"
  /\ submitDisabled
  /\ pending # {}
  /\ lastPayload = ReportFull
  /\ status = setStatus(MsgUploading, "info")

\* C12: in every front-end the analyze request carries the consent field
\* with the value "true" or carries no consent field at all (the field is
\* present only when consent is affirmed); stated over the form of each
\* request that is being sent.
C12_ConsentTrueOrAbsent ==
  \A h \in pending :
    h.stage = "fetch"
      => ("consent" \in DOMAIN h.form => h.form.consent = "true")

\* the list sections with their placeholder texts
ListSections == {"checklist", "highlights", "transcript"}

EmptyText(section) ==
  CASE section = "checklist" -> "Checklist is empty"
    [] section = "highlights" -> "No highlights"
    [] section = "transcript" -> "No segments"

\* the section renderer of a list section applied to a container
RenderList(section, prev, arg) ==
  CASE section = "checklist" -> renderChecklist(prev, arg)
    [] section = "highlights" -> renderHighlights(prev, arg)
    [] section = "transcript" -> renderTranscript(prev, arg)

\* an empty or absent sequence
EmptyLists == {Undef, JArr(<< >>)}

\* C13: for checklist, highlights and transcript, rendering an empty or an
\* absent sequence into the container, whatever it holds from earlier
\* reports, leaves exactly one placeholder element in it; and after an
\* analysis that rendered to its end, the container of each list the report
\* lacks holds exactly that placeholder.
C13_EmptyListOnePlaceholder ==
  /\ frontend = "main"
       => \A section \in ListSections, arg \in EmptyLists :
            RenderList(section, dom[section], arg)
              = Done(<< El("p", "empty", EmptyText(section)) >>)
  /\ (frontend = "main" /\ lastEvent.kind = "settled" /\ status.type = "success")
       => \A section \in ListSections :
            Prop(lastEvent.body, section) \in EmptyLists
              => dom[section] = << El("p", "empty", EmptyText(section)) >>

\* C13 witness: a report without lists rendered over the items of call-42
\* (which was exported while it was displayed)
C13_Witness ==
  /\ lastEvent.kind = "settled"
  /\ lastEvent.body = ReportEmptyId
  /\ status.type = "success"
  /\ download.url # 0
  /\ download.name = "call-42.json"
  /\ dom.checklist = << El("p", "empty", "Checklist is empty") >>
  /\ dom.transcript = << El("p", "empty", "No segments") >>

\* max(0, min(1, v)) for a number, 0 for anything else, in hundredths
ExpectedFill(v) ==
  IF v.t # "num" THEN 0
  ELSE IF v.n < 0 THEN 0
  ELSE IF v.n > 100 THEN 100
  ELSE v.n

\* C14: after renderScores the score card holds the three rows, and the bar
\* of each row is filled to max(0, min(1, v)) of its score v, to 0 when the
\* score is absent or not a number.
C14_FillIsClamped ==
  lastEvent.kind = "renderScores"
    => /\ Len(dom.scoreCard) = 3
       /\ \A i \in 1..3 :
            dom.scoreCard[i].kids[2].kids[1].scale
              = ExpectedFill(Prop(lastEvent.scores, ScoreKeys[i]))

\* the analyze request that completed last delivered a report: a 2xx
\* response with a report body (in the envelope, for the web front-end)
CompletedWithReport ==
  /\ lastEvent.kind = "settled"
  /\ lastEvent.ok
  /\ IF frontend = "main" THEN lastEvent.body \in Reports
     ELSE lastEvent.body \in {Envelope(WebReportFull), Envelope(ReportDegraded)}

\* the analyze request that completed last failed
CompletedWithFailure ==
  /\ lastEvent.kind \in {"settled", "failed"}
  /\ ~CompletedWithReport

\* C15: right after an analyze request completes, the status and the
\* rendered report are those of that request, whatever was issued or shown
\* before: its report and the success status when it delivered a report,
\* an error message (not "done", not "in progress") when it failed.
C15_LastCompletedWins ==
  /\ (frontend = "main" /\ CompletedWithReport)
       => /\ status = setStatus(MsgReady, "success")
          /\ dom = render(EmptyDom, lastEvent.body).dom
  /\ (frontend = "main" /\ CompletedWithFailure)
       => /\ status.type = "error"
          /\ status.text \notin {MsgReady, MsgUploading}
  /\ (frontend = "web" /\ CompletedWithReport)
       => /\ status.text = web_MsgDone
          /\ resultEl = [hidden |-> FALSE,
                         html |-> web_renderResult(Prop(lastEvent.body, "data")).html]
  /\ (frontend = "web" /\ CompletedWithFailure)
       => status.text \notin {web_MsgDone, web_MsgAnalyzing}

\* C16: rendering leaves no residue and is idempotent: on whatever the page
\* shows, render(B) displays what render(B) displays on the empty page, in
\* every section, and a second render(B) changes nothing.
C16_RenderNoResidue ==
  frontend = "main"
    => \A B \in Reports :
         /\ render(dom, B).dom = render(EmptyDom, B).dom
         /\ render(render(dom, B).dom, B).dom = render(dom, B).dom

\* C17: an object URL is allocated only by an export that succeeds, which
\* uses it (saves or opens through it) and sets its revoke timer in the same
\* handler; it is revoked by that timer alone, in a later step, and once
\* revoked it is never touched again; and again and again every URL
\* allocated so far is revoked, so that, the URLs being kept in order and a
\* revoked one staying revoked, every allocated URL is eventually revoked.
C17_UrlsRevokedOnce ==
  /\ [][/\ Len(urls') >= Len(urls)
        /\ \A u \in 1..Len(urls') :
             u > Len(urls)
               => /\ urls'[u].timer /\ ~urls'[u].revoked
                  /\ \/ lastEvent'.kind = "downloadJson" /\ download'.url = u
                     \/ lastEvent'.kind = "openHtml" /\ opened'.url = u
        /\ \A u \in 1..Len(urls) :
             /\ urls[u].revoked => urls'[u] = urls[u]
             /\ (urls'[u].revoked /\ ~urls[u].revoked)
                  => (urls[u].timer /\ ~urls'[u].timer
                      /\ lastEvent'.kind = "revoke" /\ lastEvent'.url = u)]_vars
  /\ []<>(\A u \in 1..Len(urls) : urls[u].revoked)

\* C17 witness: a data export and a document export, both URLs revoked
C17_Witness ==
  /\ lastEvent.kind = "revoke"
  /\ Len(urls) = 2
  /\ urls[1].revoked /\ urls[2].revoked
  /\ download.url # 0
  /\ opened.url # 0

\* C18: in every state the held report, if any, is the report on display,
\* rendered to its end: a 2xx report whose rendering throws part-way is not
\* held and leaves no partly updated page.
C18_HeldIsDisplayed ==
  (frontend = "main" /\ Truthy(lastPayload))
    => /\ ~render(EmptyDom, lastPayload).threw
       /\ dom = render(EmptyDom, lastPayload).dom
       /\ ~dom.resultsHidden

\* an export event
ExportStep == lastEvent'.kind \in {"downloadJson", "openHtml"}

\* an export that allocated nothing: its precondition failed
ExportFailed == ExportStep /\ urls' = urls

\* C19: an export, successful or not, with or without an analyze request in
\* flight, changes neither the held report, nor the rendered report, nor the
\* submit control, nor any request; an export that fails changes the status
\* and nothing else.
C19_ExportsReadOnly ==
  [][/\ ExportStep
          => (/\ lastPayload' = lastPayload
              /\ dom' = dom
              /\ submitDisabled' = submitDisabled
              /\ pending' = pending
              /\ posts' = posts
              /\ received' = received)
     /\ ExportFailed
          => (/\ download' = download
              /\ opened' = opened
              /\ health' = health
              /\ status'.type = "error"
              /\ ~uncaught')]_vars

\* C19 witness: the held report saved while the next request is in flight
C19_Witness ==
  /\ lastEvent.kind = "downloadJson"
  /\ submitDisabled
  /\ pending # {}
  /\ lastPayload = ReportFull
  /\ download.url = Len(urls)
  /\ download.name = "call-42.json"

\* the items of a list section of a report (none when the list is absent)
ItemsOf(report, section) ==
  IF Prop(report, section).t = "arr" THEN Prop(report, section).a ELSE << >>

\* C20: after a 2xx report, each of checklist, highlights and transcript
\* that has items shows exactly one element per item, in the order of the
\* items: the i-th element is the one built from the i-th item.
C20_OneElementPerItemInOrder ==
  (frontend = "main" /\ lastEvent.kind = "settled" /\ lastEvent.ok
   /\ lastEvent.body \in Reports)
    => \A section \in ListSections :
         LET items == ItemsOf(lastEvent.body, section)
         IN items # << >>
              => /\ Len(dom[section]) = Len(items)
                 /\ \A i \in 1..Len(items) : dom[section][i] = CardOf(section, items[i])
====
